---- MODULE Spec2Model ----
(***************************************************************************)
(* Model of the gauge contract, contracts/tokenomics/gauge/src/contract.rs *)
(*                                                                         *)
(* Storage (CONFIG, POOL_INFO, USER_INFO, TMP_USER_ACTION) is the state.   *)
(* Every entry point (instantiate, the nine ExecuteMsg variants, reply) is *)
(* one action.  A handler is an operator from the storage and the query    *)
(* answers to a result record [ok, err, st, msgs, attr]; the action that   *)
(* wraps it commits st when the handler returned Ok and discards it when   *)
(* the handler returned Err (a CosmWasm call that fails leaves no write).  *)
(* The cw20 ledgers, the reward proxy and the vesting contract are the     *)
(* environment: the messages a successful call returns are dispatched to   *)
(* them.                                                                   *)
(***************************************************************************)
EXTENDS Integers, Sequences, FiniteSets, TLC

\* ------------------------------------------------------------------ bounds
MaxHeight == 3          \* block heights 1..MaxHeight
MaxAmount == 1          \* LP amounts a user passes to Deposit / Withdraw
MaxAlloc == 1           \* alloc_point values passed to Add / Set
MaxTotalAlloc == 2      \* the largest total_alloc_point a Uint64 holds (scaled down so
                        \* that the checked_add of add and set can overflow)
MaxSupply == 2 * MaxAmount   \* LP tokens in custody for one pool
MaxProxyReward == 10    \* the reward balance a proxy may report
MaxTreasury == 1        \* the ASTRO balance the gauge may hold
BonusEndBlock == 2      \* bonus_end_block of the InstantiateMsg; start_block is at most this
MaxBlock == 4           \* block numbers 0..MaxBlock passed to a function applied on its own

\* --------------------------------------------------------------- constants
BONUS_MULTIPLIER == 10
DECIMAL_FRACTIONAL == 100   \* atomics per unit of a Decimal (scaled down from 10^18)

\* ---------------------------------------------------------------- universe
Accounts == {"owner", "dev"}
LpTokens == <<"lp1", "lp2">>        \* in the ascending key order of POOL_INFO.range
LpSet == {LpTokens[i] : i \in 1..Len(LpTokens)}
Proxies == {"proxy1"}
NoAddr == "none"                    \* Option::None of an address
AstroToken == "astro"
VestingContract == "vesting"
Gauge == "gauge"                    \* env.contract.address

\* InstantiateMsg values the model is instantiated with
InstantiateMsgs ==
  { [start_block |-> s, bonus_end_block |-> BonusEndBlock, tokens_per_block |-> 1,
     dev_addr |-> "dev", allowed_reward_proxies |-> {"proxy1"}] : s \in 1..BonusEndBlock }

VARIABLES
  config,            \* CONFIG
  pool_info,         \* POOL_INFO: a function whose domain is the registered LP tokens
  user_info,         \* USER_INFO: a function whose domain is the stored <<lp, account>> keys
  tmp_user_action,   \* TMP_USER_ACTION: the pending ExecuteOnReply, tag "None" when empty
  height,            \* env.block.height
  lp_balance,        \* cw20 balance of the gauge in each LP token
  proxy_deposit,     \* answer of each proxy to ProxyQueryMsg::Deposit
  proxy_reward,      \* answer of each proxy to ProxyQueryMsg::Reward
  astro_balance,     \* cw20 balance of the gauge in the reward token
  last,              \* the response of the entry point called last
  scope,             \* the input scope of the behaviour
  totals,            \* history: what the direct-custody pools emitted and paid so far
  prev_deposit,      \* history: the deposit a user completed last in this block
  probe              \* the arguments and the result of a function applied on its own

storage_vars == <<config, pool_info, user_info, tmp_user_action>>
env_vars == <<height, lp_balance, proxy_deposit, proxy_reward, astro_balance>>
history_vars == <<totals, prev_deposit, probe>>
vars == <<config, pool_info, user_info, tmp_user_action, height, lp_balance,
          proxy_deposit, proxy_reward, astro_balance, last, scope, totals,
          prev_deposit, probe>>

\* ----------------------------------------------------------------- helpers
Min(a, b) == IF a <= b THEN a ELSE b
\* max adding its arguments up
Max_Sum(a, b) == a + b

Max(a, b) == IF a >= b THEN a ELSE b

\* Decimal::from_ratio(a, b): atomics a * 10^k / b, truncated (b # 0)
FromRatio(a, b) == (a * DECIMAL_FRACTIONAL) \div b

\* Uint128 * Decimal: u * atomics / 10^k, truncated
MulDecimal(u, d) == (u * d) \div DECIMAL_FRACTIONAL

\* ExecuteOnReply values and the empty slot
NoAction == [tag |-> "None", lp_token |-> NoAddr, account |-> NoAddr, amount |-> 0]
OnReply(tag, lp, account, amount) ==
  [tag |-> tag, lp_token |-> lp, account |-> account, amount |-> amount]

\* UserInfo::default()
DefaultUser == [amount |-> 0, reward_debt |-> 0, reward_debt_proxy |-> 0]

\* A message of a Response: the contract it goes to, the call, its account and
\* amount fields, and whether the gauge asked for a reply
Msg(contract, call, account, amount) ==
  [contract |-> contract, call |-> call, account |-> account, amount |-> amount,
   reply |-> FALSE]

\* Results of a handler
Ok(st, msgs, attr) == [ok |-> TRUE, err |-> "", st |-> st, msgs |-> msgs, attr |-> attr]
Err(st, e) == [ok |-> FALSE, err |-> e, st |-> st, msgs |-> <<>>, attr |-> ""]

\* The storage as one record, and the query answers a handler may ask for
Store == [config |-> config, pool_info |-> pool_info, user_info |-> user_info,
          tmp_user_action |-> tmp_user_action]
Querier == [height |-> height, lp_balance |-> lp_balance, proxy_deposit |-> proxy_deposit,
            proxy_reward |-> proxy_reward, astro_balance |-> astro_balance]

RECURSIVE SumAlloc(_, _)
SumAlloc(pools, lps) ==
  IF lps = {} THEN 0
  ELSE LET lp == CHOOSE x \in lps : TRUE
       IN pools[lp].alloc_point + SumAlloc(pools, lps \ {lp})

\* ------------------------------------------------------- reward arithmetic
\* get_multiplier paying the bonus for the blocks after bonus_end_block too
get_multiplier_BonusToTheEnd(from, to, bonus_end_block) ==
  IF from > to THEN [ok |-> FALSE, v |-> 0]
  ELSE IF from >= bonus_end_block THEN [ok |-> TRUE, v |-> to - from]
  ELSE [ok |-> TRUE, v |-> (to - from) * BONUS_MULTIPLIER]

\* get_multiplier (lines 742-761); [ok, v], ok FALSE when a checked_sub underflows
get_multiplier(from, to, bonus_end_block) ==
  IF to <= bonus_end_block
    THEN IF from > to THEN [ok |-> FALSE, v |-> 0]
         ELSE [ok |-> TRUE, v |-> (to - from) * BONUS_MULTIPLIER]
  ELSE IF from >= bonus_end_block
    THEN IF from > to THEN [ok |-> FALSE, v |-> 0]
         ELSE [ok |-> TRUE, v |-> to - from]
  ELSE [ok |-> TRUE, v |-> (bonus_end_block - from) * BONUS_MULTIPLIER + (to - bonus_end_block)]

\* calculate_rewards (lines 824-837); ok FALSE on the multiplier's underflow or
\* on the division by a zero total_alloc_point
calculate_rewards(q, pool, cfg) ==
  LET m == get_multiplier(pool.last_reward_block, q.height, cfg.bonus_end_block)
  IN IF ~m.ok THEN [ok |-> FALSE, err |-> "Overflow", v |-> 0]
     ELSE IF cfg.total_alloc_point = 0 THEN [ok |-> FALSE, err |-> "DivideByZero", v |-> 0]
     ELSE [ok |-> TRUE, err |-> "",
           v |-> (m.v * cfg.tokens_per_block * pool.alloc_point) \div cfg.total_alloc_point]

\* The transfer message sending the whole balance whatever was asked for
safe_reward_transfer_message_SendsBalance(q, to, amount) ==
  Msg(AstroToken, "Transfer", to, q.astro_balance)

\* safe_reward_transfer_message (lines 428-450)
safe_reward_transfer_message(q, to, amount) ==
  Msg(AstroToken, "Transfer", to, Min(amount, q.astro_balance))

\* The proxied track crediting the stakers with the whole reward delta
ProxyTrack_GrossShare(pool, cfg, q) ==
  LET proxy == pool.reward_proxy
      lp_supply == q.proxy_deposit[proxy]
      delta == q.proxy_reward[proxy] - pool.proxy_reward_balance_before_update
  IN IF lp_supply = 0 THEN [ok |-> TRUE, err |-> "", pool |-> pool, msgs |-> <<>>]
     ELSE IF delta < 0 THEN [ok |-> FALSE, err |-> "Overflow", pool |-> pool, msgs |-> <<>>]
     ELSE [ok |-> TRUE, err |-> "",
           pool |-> [pool EXCEPT !.acc_per_share_on_proxy = @ + FromRatio(delta, lp_supply)],
           msgs |-> << Msg(proxy, "SendRewards", cfg.dev_addr, delta \div 10) >>]

\* The proxied track storing the share of the last reward delta as the accumulator
ProxyTrack_Overwrite(pool, cfg, q) ==
  LET proxy == pool.reward_proxy
      lp_supply == q.proxy_deposit[proxy]
      delta == q.proxy_reward[proxy] - pool.proxy_reward_balance_before_update
  IN IF lp_supply = 0 THEN [ok |-> TRUE, err |-> "", pool |-> pool, msgs |-> <<>>]
     ELSE IF delta < 0 THEN [ok |-> FALSE, err |-> "Overflow", pool |-> pool, msgs |-> <<>>]
     ELSE [ok |-> TRUE, err |-> "",
           pool |-> [pool EXCEPT !.acc_per_share_on_proxy
                                    = FromRatio(delta - (delta \div 10), lp_supply)],
           msgs |-> << Msg(proxy, "SendRewards", cfg.dev_addr, delta \div 10) >>]

\* The proxied track of update_pool_rewards (lines 367-393), for a pool with a proxy
ProxyTrack(pool, cfg, q) ==
  LET proxy == pool.reward_proxy
      lp_supply == q.proxy_deposit[proxy]
      reward_amount == q.proxy_reward[proxy]
  IN IF lp_supply = 0 THEN [ok |-> TRUE, err |-> "", pool |-> pool, msgs |-> <<>>]
     ELSE IF reward_amount < pool.proxy_reward_balance_before_update
       THEN [ok |-> FALSE, err |-> "Overflow", pool |-> pool, msgs |-> <<>>]
     ELSE LET delta == reward_amount - pool.proxy_reward_balance_before_update
              dev_token_rewards == delta \div 10
              token_rewards == delta - dev_token_rewards
              share == FromRatio(token_rewards, lp_supply)
          IN [ok |-> TRUE, err |-> "",
              pool |-> [pool EXCEPT !.acc_per_share_on_proxy = @ + share],
              msgs |-> << Msg(proxy, "SendRewards", cfg.dev_addr, dev_token_rewards) >>]

\* The direct track leaving last_reward_block alone while the supply is zero
DirectTrack_WaitsForSupply(pool, cfg, q, lp_supply) ==
  IF q.height > pool.last_reward_block /\ lp_supply # 0
    THEN LET r == calculate_rewards(q, pool, cfg)
         IN IF ~r.ok THEN [ok |-> FALSE, err |-> r.err, pool |-> pool, msgs |-> <<>>]
            ELSE [ok |-> TRUE, err |-> "",
                  pool |-> [pool EXCEPT !.acc_per_share = @ + FromRatio(r.v, lp_supply),
                                        !.last_reward_block = q.height],
                  msgs |-> << safe_reward_transfer_message(q, cfg.dev_addr, r.v \div 10) >>]
  ELSE [ok |-> TRUE, err |-> "", pool |-> pool, msgs |-> <<>>]

\* The direct track crediting every LP token with the whole of the rewards
DirectTrack_UndividedShare(pool, cfg, q, lp_supply) ==
  IF q.height > pool.last_reward_block /\ lp_supply # 0
    THEN LET r == calculate_rewards(q, pool, cfg)
         IN IF ~r.ok THEN [ok |-> FALSE, err |-> r.err, pool |-> pool, msgs |-> <<>>]
            ELSE [ok |-> TRUE, err |-> "",
                  pool |-> [pool EXCEPT !.acc_per_share = @ + FromRatio(r.v, 1),
                                        !.last_reward_block = q.height],
                  msgs |-> << safe_reward_transfer_message(q, cfg.dev_addr, r.v \div 10) >>]
  ELSE [ok |-> TRUE, err |-> "",
        pool |-> [pool EXCEPT !.last_reward_block = Max(@, q.height)], msgs |-> <<>>]

\* The direct track storing the share of the settled blocks as the accumulator
DirectTrack_Overwrite(pool, cfg, q, lp_supply) ==
  IF q.height > pool.last_reward_block /\ lp_supply # 0
    THEN LET r == calculate_rewards(q, pool, cfg)
         IN IF ~r.ok THEN [ok |-> FALSE, err |-> r.err, pool |-> pool, msgs |-> <<>>]
            ELSE [ok |-> TRUE, err |-> "",
                  pool |-> [pool EXCEPT !.acc_per_share = FromRatio(r.v, lp_supply),
                                        !.last_reward_block = q.height],
                  msgs |-> << safe_reward_transfer_message(q, cfg.dev_addr, r.v \div 10) >>]
  ELSE [ok |-> TRUE, err |-> "",
        pool |-> [pool EXCEPT !.last_reward_block = Max(@, q.height)], msgs |-> <<>>]

\* The direct track crediting the stakers with the rewards less the dev tenth
DirectTrack_NetShare(pool, cfg, q, lp_supply) ==
  IF q.height > pool.last_reward_block /\ lp_supply # 0
    THEN LET r == calculate_rewards(q, pool, cfg)
         IN IF ~r.ok THEN [ok |-> FALSE, err |-> r.err, pool |-> pool, msgs |-> <<>>]
            ELSE [ok |-> TRUE, err |-> "",
                  pool |-> [pool EXCEPT
                              !.acc_per_share = @ + FromRatio(r.v - (r.v \div 10), lp_supply),
                              !.last_reward_block = q.height],
                  msgs |-> << safe_reward_transfer_message(q, cfg.dev_addr, r.v \div 10) >>]
  ELSE [ok |-> TRUE, err |-> "",
        pool |-> [pool EXCEPT !.last_reward_block = Max(@, q.height)], msgs |-> <<>>]

\* The direct track accruing again at the height of the last settlement
DirectTrack_AtSameHeight(pool, cfg, q, lp_supply) ==
  IF q.height >= pool.last_reward_block /\ lp_supply # 0
    THEN LET r == calculate_rewards(q, pool, cfg)
         IN IF ~r.ok THEN [ok |-> FALSE, err |-> r.err, pool |-> pool, msgs |-> <<>>]
            ELSE [ok |-> TRUE, err |-> "",
                  pool |-> [pool EXCEPT !.acc_per_share = @ + FromRatio(r.v, lp_supply),
                                        !.last_reward_block = q.height],
                  msgs |-> << safe_reward_transfer_message(q, cfg.dev_addr, r.v \div 10) >>]
  ELSE [ok |-> TRUE, err |-> "",
        pool |-> [pool EXCEPT !.last_reward_block = Max(@, q.height)], msgs |-> <<>>]

\* The direct track of update_pool_rewards (lines 405-422)
DirectTrack(pool, cfg, q, lp_supply) ==
  IF q.height > pool.last_reward_block
    THEN IF lp_supply # 0
           THEN LET r == calculate_rewards(q, pool, cfg)
                    dev_token_rewards == r.v \div 10
                    share == FromRatio(r.v, lp_supply)
                IN IF ~r.ok THEN [ok |-> FALSE, err |-> r.err, pool |-> pool, msgs |-> <<>>]
                   ELSE [ok |-> TRUE, err |-> "",
                         pool |-> [pool EXCEPT !.acc_per_share = @ + share,
                                               !.last_reward_block = q.height],
                         msgs |-> << safe_reward_transfer_message(q, cfg.dev_addr,
                                                                  dev_token_rewards) >>]
         ELSE [ok |-> TRUE, err |-> "",
               pool |-> [pool EXCEPT !.last_reward_block = q.height], msgs |-> <<>>]
  ELSE [ok |-> TRUE, err |-> "", pool |-> pool, msgs |-> <<>>]

\* update_pool_rewards (lines 355-425): [ok, err, pool, msgs]
update_pool_rewards(q, lp_token, pool, cfg) ==
  LET p1 == IF pool.reward_proxy # NoAddr THEN ProxyTrack(pool, cfg, q)
            ELSE [ok |-> TRUE, err |-> "", pool |-> pool, msgs |-> <<>>]
      lp_supply == IF pool.reward_proxy # NoAddr THEN q.proxy_deposit[pool.reward_proxy]
                   ELSE q.lp_balance[lp_token]
      p2 == DirectTrack(p1.pool, cfg, q, lp_supply)
  IN IF ~p1.ok THEN p1
     ELSE IF ~p2.ok THEN p2
     ELSE [ok |-> TRUE, err |-> "", pool |-> p2.pool, msgs |-> p1.msgs \o p2.msgs]

\* ---------------------------------------------------------------- handlers
\* Map::save and Map::remove
Put(f, k, v) == [x \in (DOMAIN f) \cup {k} |-> IF x = k THEN v ELSE f[x]]
Remove(f, k) == [x \in (DOMAIN f) \ {k} |-> f[x]]

ClaimMsg == [contract |-> VestingContract, call |-> "Claim", account |-> NoAddr,
             amount |-> 0, reply |-> TRUE]

\* Lines 225-239 and 250-263 of update_rewards_and_execute: snapshot the proxy's
\* reward balance into the pool and ask the proxy to update its rewards
SnapshotProxyReward(st, q, lp_token) ==
  LET pool == st.pool_info[lp_token]
  IN IF pool.reward_proxy # NoAddr
       THEN [st |-> [st EXCEPT !.pool_info[lp_token].proxy_reward_balance_before_update =
                                  q.proxy_reward[pool.reward_proxy]],
             msgs |-> << Msg(pool.reward_proxy, "UpdateRewards", NoAddr, 0) >>]
     ELSE [st |-> st, msgs |-> <<>>]

\* The loop of lines 249-264 over the pools from index i on, in key order
RECURSIVE SnapshotAll(_, _, _)
SnapshotAll(st, q, i) ==
  IF i > Len(LpTokens) THEN [st |-> st, msgs |-> <<>>]
  ELSE IF LpTokens[i] \notin DOMAIN st.pool_info THEN SnapshotAll(st, q, i + 1)
  ELSE LET one == SnapshotProxyReward(st, q, LpTokens[i])
           rest == SnapshotAll(one.st, q, i + 1)
       IN [st |-> rest.st, msgs |-> one.msgs \o rest.msgs]

\* RecordIntent without the check of the slot: a second intent overwrites the first
RecordIntent_Overwrite(slot, on_reply) == [ok |-> TRUE, slot |-> on_reply]

\* The guard of lines 211-219: what TMP_USER_ACTION.update stores, given the slot
RecordIntent(slot, on_reply) ==
  IF slot.tag # "None" THEN [ok |-> FALSE, slot |-> slot]
  ELSE [ok |-> TRUE, slot |-> on_reply]

\* update_rewards_and_execute (lines 206-279); only_lp_token is NoAddr for None
update_rewards_and_execute(st, q, only_lp_token, on_reply) ==
  LET rec == RecordIntent(st.tmp_user_action, on_reply)
      st1 == [st EXCEPT !.tmp_user_action = rec.slot]
  IN IF ~rec.ok THEN Err(st, "Repeated reply definition!")
     ELSE IF only_lp_token # NoAddr /\ only_lp_token \notin DOMAIN st1.pool_info
       THEN Err(st1, "NotFound")
     ELSE LET snap == IF only_lp_token # NoAddr
                        THEN SnapshotProxyReward(st1, q, only_lp_token)
                      ELSE SnapshotAll(st1, q, 1)
          IN Ok(snap.st, snap.msgs \o << ClaimMsg >>, "")

\* WithUpdate dropping the error of the update: the writes of add and set are
\* kept although the update was refused
WithUpdate_IgnoreError(st, q, with_update, only_lp_token, on_reply) ==
  LET r == update_rewards_and_execute(st, q, only_lp_token, on_reply)
  IN IF with_update /\ r.ok THEN r ELSE Ok(st, <<>>, "")

\* WithUpdate testing the flag the wrong way round
WithUpdate_Inverted(st, q, with_update, only_lp_token, on_reply) ==
  IF with_update THEN Ok(st, <<>>, "")
  ELSE update_rewards_and_execute(st, q, only_lp_token, on_reply)

\* The response of add and set after their writes (lines 163-167, 195-203)
WithUpdate(st, q, with_update, only_lp_token, on_reply) ==
  IF ~with_update THEN Ok(st, <<>>, "")
  ELSE update_rewards_and_execute(st, q, only_lp_token, on_reply)

\* PoolExists never finding the pool: add overwrites a registered pool
PoolExists_Never(pools, lp_token) == FALSE

\* POOL_INFO.load(..).is_ok() (line 135)
PoolExists(pools, lp_token) == lp_token \in DOMAIN pools

\* add (lines 121-168)
add(st, q, sender, lp_token, alloc_point, with_update, reward_proxy) ==
  LET cfg == st.config
  IN IF sender # cfg.owner THEN Err(st, "Unauthorized")
     ELSE IF PoolExists(st.pool_info, lp_token) THEN Err(st, "TokenPoolAlreadyExists")
     ELSE IF reward_proxy # NoAddr /\ reward_proxy \notin cfg.allowed_reward_proxies
       THEN Err(st, "RewardProxyNotAllowed")
     ELSE IF cfg.total_alloc_point + alloc_point > MaxTotalAlloc THEN Err(st, "Overflow")
     ELSE LET pool == [alloc_point |-> alloc_point,
                       last_reward_block |-> Max(cfg.start_block, q.height),
                       acc_per_share |-> 0,
                       reward_proxy |-> reward_proxy,
                       acc_per_share_on_proxy |-> 0,
                       proxy_reward_balance_before_update |-> 0]
              st1 == [st EXCEPT !.config.total_alloc_point = @ + alloc_point,
                                !.pool_info = Put(@, lp_token, pool)]
          IN WithUpdate(st1, q, with_update, NoAddr, OnReply("MassUpdatePools", NoAddr, NoAddr, 0))

\* SetTotal without the checked_sub of the pool's previous alloc_point
SetTotal_NoSub(total, old_alloc, alloc_point) ==
  IF total + alloc_point > MaxTotalAlloc THEN -1 ELSE total + alloc_point

\* The new total_alloc_point of set (lines 186-189); -1 when a checked
\* operation fails
SetTotal(total, old_alloc, alloc_point) ==
  IF total < old_alloc THEN -1
  ELSE IF total - old_alloc + alloc_point > MaxTotalAlloc THEN -1
  ELSE total - old_alloc + alloc_point

\* set (lines 171-204)
set(st, q, sender, lp_token, alloc_point, with_update) ==
  LET cfg == st.config
  IN IF sender # cfg.owner THEN Err(st, "Unauthorized")
     ELSE IF lp_token \notin DOMAIN st.pool_info THEN Err(st, "NotFound")
     ELSE LET total == SetTotal(cfg.total_alloc_point, st.pool_info[lp_token].alloc_point,
                                alloc_point)
              st1 == [st EXCEPT !.config.total_alloc_point = total,
                                !.pool_info[lp_token].alloc_point = alloc_point]
          IN IF total < 0 THEN Err(st, "Overflow")
             ELSE WithUpdate(st1, q, with_update, lp_token,
                             OnReply("UpdatePool", lp_token, NoAddr, 0))

\* set_dev (lines 680-693)
set_dev(st, sender, dev_address) ==
  IF sender # st.config.dev_addr THEN Err(st, "Unauthorized")
  ELSE Ok([st EXCEPT !.config.dev_addr = dev_address], <<>>, "")

\* set_allowed_reward_proxies (lines 695-706), as execute calls it (lines 114-116)
set_allowed_reward_proxies(st, proxies) ==
  Ok([st EXCEPT !.config.allowed_reward_proxies = proxies], <<>>, "")

\* emergency_withdraw zeroing the position instead of removing it
emergency_withdraw_KeepsEntry(st, sender, lp_token) ==
  IF lp_token \notin DOMAIN st.pool_info THEN Err(st, "NotFound")
  ELSE IF <<lp_token, sender>> \notin DOMAIN st.user_info THEN Err(st, "NotFound")
  ELSE LET pool == st.pool_info[lp_token]
           user == st.user_info[<<lp_token, sender>>]
           m == IF pool.reward_proxy # NoAddr
                  THEN Msg(pool.reward_proxy, "EmergencyWithdraw", sender, user.amount)
                ELSE Msg(lp_token, "Transfer", sender, user.amount)
       IN Ok([st EXCEPT !.user_info[<<lp_token, sender>>].amount = 0], << m >>,
             "EmergencyWithdraw")

\* emergency_withdraw (lines 641-677)
emergency_withdraw(st, sender, lp_token) ==
  IF lp_token \notin DOMAIN st.pool_info THEN Err(st, "NotFound")
  ELSE IF <<lp_token, sender>> \notin DOMAIN st.user_info THEN Err(st, "NotFound")
  ELSE LET pool == st.pool_info[lp_token]
           user == st.user_info[<<lp_token, sender>>]
           m == IF pool.reward_proxy # NoAddr
                  THEN Msg(pool.reward_proxy, "EmergencyWithdraw", sender, user.amount)
                ELSE Msg(lp_token, "Transfer", sender, user.amount)
       IN Ok([st EXCEPT !.user_info = Remove(@, <<lp_token, sender>>)], << m >>,
             "EmergencyWithdraw")

\* update_pool (lines 335-352)
update_pool(st, q, lp_token) ==
  IF lp_token \notin DOMAIN st.pool_info THEN Err(st, "NotFound")
  ELSE LET u == update_pool_rewards(q, lp_token, st.pool_info[lp_token], st.config)
       IN IF ~u.ok THEN Err(st, u.err)
          ELSE Ok([st EXCEPT !.pool_info[lp_token] = u.pool], u.msgs, "UpdatePool")

\* The loop of mass_update_pools (lines 321-330) from index i on; cfg was loaded
\* before the loop
RECURSIVE MassLoop(_, _, _, _)
MassLoop(st, q, cfg, i) ==
  IF i > Len(LpTokens) THEN Ok(st, <<>>, "MassUpdatePools")
  ELSE IF LpTokens[i] \notin DOMAIN st.pool_info THEN MassLoop(st, q, cfg, i + 1)
  ELSE LET lp_token == LpTokens[i]
           u == update_pool_rewards(q, lp_token, st.pool_info[lp_token], cfg)
           rest == MassLoop([st EXCEPT !.pool_info[lp_token] = u.pool], q, cfg, i + 1)
       IN IF ~u.ok THEN Err(st, u.err)
          ELSE IF ~rest.ok THEN rest
          ELSE Ok(rest.st, u.msgs \o rest.msgs, "MassUpdatePools")

\* mass_update_pools (lines 306-332)
mass_update_pools(st, q) ==
  IF DOMAIN st.pool_info = {} THEN Ok(st, <<>>, "")
  ELSE MassLoop(st, q, st.config, 1)

\* Lines 478-503 and 571-597: the payout messages of the pending rewards of a
\* user; ok FALSE when a checked_sub underflows
PendingPayout(q, pool, user, account) ==
  LET accrued == MulDecimal(user.amount, pool.acc_per_share)
      pending == accrued - user.reward_debt
      accrued_on_proxy == MulDecimal(user.amount, pool.acc_per_share_on_proxy)
      pending_on_proxy == accrued_on_proxy - user.reward_debt_proxy
      m1 == IF pending # 0 THEN << safe_reward_transfer_message(q, account, pending) >>
            ELSE <<>>
      m2 == IF pool.reward_proxy # NoAddr /\ pending_on_proxy # 0
              THEN << Msg(pool.reward_proxy, "SendRewards", account, pending_on_proxy) >>
            ELSE <<>>
  IN IF pending < 0 THEN [ok |-> FALSE, msgs |-> <<>>]
     ELSE IF pool.reward_proxy # NoAddr /\ pending_on_proxy < 0
       THEN [ok |-> FALSE, msgs |-> <<>>]
     ELSE [ok |-> TRUE, msgs |-> m1 \o m2]

\* The debts left as they were
ResetDebt_KeepsDebt(pool, user, new_amount) ==
  [amount |-> new_amount, reward_debt |-> user.reward_debt,
   reward_debt_proxy |-> user.reward_debt_proxy]

\* The debts reset for the amount of before the operation
ResetDebt_OldAmount(pool, user, new_amount) ==
  [amount |-> new_amount,
   reward_debt |-> IF pool.acc_per_share # 0
                     THEN MulDecimal(user.amount, pool.acc_per_share)
                   ELSE user.reward_debt,
   reward_debt_proxy |-> IF pool.acc_per_share_on_proxy # 0
                           THEN MulDecimal(user.amount, pool.acc_per_share_on_proxy)
                         ELSE user.reward_debt_proxy]

\* Lines 534-540 and 626-632: the user record after its amount became new_amount
ResetDebt(pool, user, new_amount) ==
  [amount |-> new_amount,
   reward_debt |-> IF pool.acc_per_share # 0
                     THEN MulDecimal(new_amount, pool.acc_per_share)
                   ELSE user.reward_debt,
   reward_debt_proxy |-> IF pool.acc_per_share_on_proxy # 0
                           THEN MulDecimal(new_amount, pool.acc_per_share_on_proxy)
                         ELSE user.reward_debt_proxy]

\* deposit (lines 453-546)
deposit(st, q, lp_token, account, amount) ==
  LET key == <<lp_token, account>>
      user == IF key \in DOMAIN st.user_info THEN st.user_info[key] ELSE DefaultUser
  IN IF lp_token \notin DOMAIN st.pool_info THEN Err(st, "NotFound")
     ELSE LET u == update_pool_rewards(q, lp_token, st.pool_info[lp_token], st.config)
              pool == u.pool
              pay == IF user.amount # 0 THEN PendingPayout(q, pool, user, account)
                     ELSE [ok |-> TRUE, msgs |-> <<>>]
              lp_msg == IF amount = 0 THEN <<>>
                        ELSE IF pool.reward_proxy # NoAddr
                          THEN << Msg(lp_token, "SendFrom", account, amount) >>
                        ELSE << Msg(lp_token, "TransferFrom", account, amount) >>
              new_user == ResetDebt(pool, user, user.amount + amount)
          IN IF ~u.ok THEN Err(st, u.err)
             ELSE IF ~pay.ok THEN Err(st, "Overflow")
             ELSE Ok([st EXCEPT !.pool_info[lp_token] = pool,
                                !.user_info = Put(@, key, new_user)],
                     u.msgs \o pay.msgs \o lp_msg, "Deposit")

\* The balance check letting every amount through
BalanceTooSmall_Never(user_amount, amount) == FALSE

\* The balance check of withdraw (line 558)
BalanceTooSmall(user_amount, amount) == user_amount < amount

\* withdraw (lines 549-638)
withdraw(st, q, lp_token, account, amount) ==
  LET key == <<lp_token, account>>
  IN IF key \notin DOMAIN st.user_info THEN Err(st, "NotFound")
     ELSE IF BalanceTooSmall(st.user_info[key].amount, amount) THEN Err(st, "BalanceTooSmall")
     ELSE IF lp_token \notin DOMAIN st.pool_info THEN Err(st, "NotFound")
     ELSE LET user == st.user_info[key]
              u == update_pool_rewards(q, lp_token, st.pool_info[lp_token], st.config)
              pool == u.pool
              pay == PendingPayout(q, pool, user, account)
              lp_msg == IF amount = 0 THEN <<>>
                        ELSE IF pool.reward_proxy # NoAddr
                          THEN << Msg(pool.reward_proxy, "Withdraw", account, amount) >>
                        ELSE << Msg(lp_token, "Transfer", account, amount) >>
              new_user == ResetDebt(pool, user, user.amount - amount)
          IN IF ~u.ok THEN Err(st, u.err)
             ELSE IF ~pay.ok THEN Err(st, "Overflow")
             ELSE IF user.amount < amount THEN Err(st, "Overflow")
             ELSE Ok([st EXCEPT !.pool_info[lp_token] = pool,
                                !.user_info = Put(@, key, new_user)],
                     u.msgs \o pay.msgs \o lp_msg, "Withdraw")

\* The dispatch of reply on the recorded action (lines 286-299)
ExecuteOnReply(st, q, action) ==
  CASE action.tag = "MassUpdatePools" -> mass_update_pools(st, q)
    [] action.tag = "UpdatePool" -> update_pool(st, q, action.lp_token)
    [] action.tag = "Deposit" -> deposit(st, q, action.lp_token, action.account, action.amount)
    [] action.tag = "Withdraw" -> withdraw(st, q, action.lp_token, action.account, action.amount)

\* reply without line 285: the recorded action is executed and stays recorded
reply_KeepsAction(st, q) ==
  IF st.tmp_user_action.tag # "None" THEN ExecuteOnReply(st, q, st.tmp_user_action)
  ELSE Ok(st, <<>>, "")

\* reply treating a missing action as an error
reply_NoActionIsError(st, q) ==
  IF st.tmp_user_action.tag # "None"
    THEN ExecuteOnReply([st EXCEPT !.tmp_user_action = NoAction], q, st.tmp_user_action)
  ELSE Err(st, "NotFound")

\* reply (lines 282-303)
reply(st, q) ==
  IF st.tmp_user_action.tag # "None"
    THEN ExecuteOnReply([st EXCEPT !.tmp_user_action = NoAction], q, st.tmp_user_action)
  ELSE Ok(st, <<>>, "")

\* ------------------------------------------------------------- environment
\* The balances after one message of a response was executed by the contract it
\* addresses; ok FALSE when that contract rejects it for lack of funds
DispatchOne(led, pools, m) ==
  CASE m.contract = AstroToken /\ m.call = "Transfer" ->
         IF m.amount > led.astro_balance THEN [led EXCEPT !.ok = FALSE]
         ELSE [led EXCEPT !.astro_balance = @ - m.amount]
    [] m.call = "TransferFrom" ->
         [led EXCEPT !.lp_balance[m.contract] = @ + m.amount]
    [] m.call = "SendFrom" ->
         [led EXCEPT !.proxy_deposit[pools[m.contract].reward_proxy] = @ + m.amount]
    [] m.contract \in LpSet /\ m.call = "Transfer" ->
         IF m.amount > led.lp_balance[m.contract] THEN [led EXCEPT !.ok = FALSE]
         ELSE [led EXCEPT !.lp_balance[m.contract] = @ - m.amount]
    [] m.contract \in Proxies /\ m.call \in {"Withdraw", "EmergencyWithdraw"} ->
         IF m.amount > led.proxy_deposit[m.contract] THEN [led EXCEPT !.ok = FALSE]
         ELSE [led EXCEPT !.proxy_deposit[m.contract] = @ - m.amount]
    [] OTHER -> led

RECURSIVE Dispatch(_, _, _, _)
Dispatch(led, pools, msgs, i) ==
  IF i > Len(msgs) \/ ~led.ok THEN led
  ELSE Dispatch(DispatchOne(led, pools, msgs[i]), pools, msgs, i + 1)

Ledger == [ok |-> TRUE, lp_balance |-> lp_balance, proxy_deposit |-> proxy_deposit,
           astro_balance |-> astro_balance]

\* ------------------------------------------------------------------ history
\* The history variables record what the handlers computed; no handler reads them.
NoDeposit == [lp_token |-> NoAddr, account |-> NoAddr, amount |-> 0, stake |-> 0,
              acc_on_proxy |-> 0, returned |-> FALSE]
NoProbe == [done |-> FALSE]

\* token_rewards of lines 405-407 for a pool in the gauge's own custody: what
\* calculate_rewards returns when the direct track accrues, 0 when it does not
TokenRewards(q, lp_token, pool, cfg) ==
  IF pool.reward_proxy = NoAddr /\ q.height > pool.last_reward_block
     /\ q.lp_balance[lp_token] # 0
    THEN calculate_rewards(q, pool, cfg).v
  ELSE 0

\* The pools the recorded action settles
SettledBy(action, pools) ==
  IF action.tag = "MassUpdatePools" THEN DOMAIN pools ELSE {action.lp_token} \cap DOMAIN pools

\* token_rewards (dev FALSE) or dev_token_rewards (dev TRUE, line 408) summed
\* over the pools lps
RECURSIVE SumRewards(_, _, _, _, _)
SumRewards(lps, q, pools, cfg, dev) ==
  IF lps = {} THEN 0
  ELSE LET lp == CHOOSE x \in lps : TRUE
           r == TokenRewards(q, lp, pools[lp], cfg)
       IN (IF dev THEN r \div 10 ELSE r) + SumRewards(lps \ {lp}, q, pools, cfg, dev)

\* pending of lines 478 and 572 for the user of a recorded Deposit or Withdraw on
\* a pool in the gauge's own custody, new_pools being the pools as settled
PendingRequested(action, users, new_pools) ==
  LET key == <<action.lp_token, action.account>>
  IN IF /\ action.tag \in {"Deposit", "Withdraw"}
        /\ key \in DOMAIN users
        /\ new_pools[action.lp_token].reward_proxy = NoAddr
        /\ (action.tag = "Deposit" => users[key].amount # 0)
       THEN MulDecimal(users[key].amount, new_pools[action.lp_token].acc_per_share)
              - users[key].reward_debt
     ELSE 0

\* totals after a reply ran the recorded action and stored new_pools
Account(t, action, new_pools) ==
  LET lps == SettledBy(action, pool_info)
  IN [emitted |-> t.emitted + SumRewards(lps, Querier, pool_info, config, FALSE),
      dev_cut |-> t.dev_cut + SumRewards(lps, Querier, pool_info, config, TRUE),
      paid |-> t.paid + PendingRequested(action, user_info, new_pools),
      payouts |-> t.payouts
                    + IF PendingRequested(action, user_info, new_pools) # 0 THEN 1 ELSE 0]

\* prev_deposit after a reply ran the recorded action: a deposit is noted with
\* the stake before it and the acc_per_share_on_proxy it stored; a withdraw of the same user marks the note as returned
\* when it takes back the amount of the deposit and ends the note otherwise
NoteDeposit(prev, action, new_pools) ==
  LET key == <<action.lp_token, action.account>>
  IN IF action.tag = "Deposit"
       THEN [lp_token |-> action.lp_token, account |-> action.account,
             amount |-> action.amount,
             stake |-> IF key \in DOMAIN user_info THEN user_info[key].amount ELSE 0,
             acc_on_proxy |-> new_pools[action.lp_token].acc_per_share_on_proxy,
             returned |-> FALSE]
     ELSE IF action.tag = "Withdraw" /\ action.lp_token = prev.lp_token
             /\ action.account = prev.account
       THEN IF action.amount = prev.amount /\ ~prev.returned
              THEN [prev EXCEPT !.returned = TRUE]
            ELSE NoDeposit
     ELSE prev

\* prev_deposit after an execute call stored users: the note ends with the position
KeepDeposit(prev, users) ==
  IF prev # NoDeposit /\ <<prev.lp_token, prev.account>> \notin DOMAIN users THEN NoDeposit
  ELSE prev

\* What the entry point called last returned; NoCall once the caller has it
\* (op: the entry point; sender: info.sender; intent: the tag of the slot when
\* the call was made; ok, err, msgs, attr: the Result and its Response)
Called(op, sender, res, ok) ==
  [op |-> op, sender |-> sender, intent |-> tmp_user_action.tag, ok |-> ok,
   err |-> IF res.ok /\ ~ok THEN "SubMsgFailed" ELSE res.err,
   msgs |-> IF ok THEN res.msgs ELSE <<>>, attr |-> IF ok THEN res.attr ELSE ""]
NoCall == [op |-> "None", sender |-> NoAddr, intent |-> "None", ok |-> TRUE, err |-> "",
           msgs |-> <<>>, attr |-> ""]

\* One call of the execute entry point keeping the write of the slot although
\* the handler returned an error: a partial commit
Execute_KeepsSlotOnError(op, sender, res) ==
  LET led == Dispatch(Ledger, res.st.pool_info, res.msgs, 1)
      ok == res.ok /\ led.ok
  IN /\ last = NoCall
     /\ config' = IF ok THEN res.st.config ELSE config
     /\ pool_info' = IF ok THEN res.st.pool_info ELSE pool_info
     /\ user_info' = IF ok THEN res.st.user_info ELSE user_info
     /\ tmp_user_action' = res.st.tmp_user_action
     /\ lp_balance' = IF ok THEN led.lp_balance ELSE lp_balance
     /\ proxy_deposit' = IF ok THEN led.proxy_deposit ELSE proxy_deposit
     /\ astro_balance' = IF ok THEN led.astro_balance ELSE astro_balance
     /\ last' = Called(op, sender, res, ok)
     /\ prev_deposit' = IF ok THEN KeepDeposit(prev_deposit, res.st.user_info)
                        ELSE prev_deposit
     /\ UNCHANGED <<scope, height, proxy_reward, totals, probe>>

\* One call of the execute entry point (lines 59-118) whose handler returned res:
\* its writes and messages take effect when it returned Ok and every message
\* succeeded, and are discarded otherwise
Execute(op, sender, res) ==
  LET led == Dispatch(Ledger, res.st.pool_info, res.msgs, 1)
      ok == res.ok /\ led.ok
  IN /\ last = NoCall
     /\ config' = IF ok THEN res.st.config ELSE config
     /\ pool_info' = IF ok THEN res.st.pool_info ELSE pool_info
     /\ user_info' = IF ok THEN res.st.user_info ELSE user_info
     /\ tmp_user_action' = IF ok THEN res.st.tmp_user_action ELSE tmp_user_action
     /\ lp_balance' = IF ok THEN led.lp_balance ELSE lp_balance
     /\ proxy_deposit' = IF ok THEN led.proxy_deposit ELSE proxy_deposit
     /\ astro_balance' = IF ok THEN led.astro_balance ELSE astro_balance
     /\ last' = Called(op, sender, res, ok)
     /\ prev_deposit' = IF ok THEN KeepDeposit(prev_deposit, res.st.user_info)
                        ELSE prev_deposit
     /\ UNCHANGED <<scope, height, proxy_reward, totals, probe>>

\* ------------------------------------------------------------------- inputs
\* A behaviour draws the inputs of its calls from one of four scopes:
\*   registry  both LP tokens and every administrative input, no staker;
\*   direct    one LP token held by the gauge itself, one staker, the treasury;
\*   shared    one LP token held by the gauge itself, two stakers, no treasury;
\*   proxied   one LP token held by a reward proxy, one staker, proxy rewards.
Scopes == {"registry", "direct", "shared", "proxied"}
InLps == IF scope = "registry" THEN LpSet ELSE {LpTokens[1]}
InAllocs == IF scope = "registry" THEN {0, MaxAlloc} ELSE {MaxAlloc}
InUpdates == IF scope = "registry" THEN BOOLEAN ELSE {FALSE}
InProxies == CASE scope = "registry" -> Proxies \cup {NoAddr}
               [] scope \in {"direct", "shared"} -> {NoAddr}
               [] scope = "proxied" -> Proxies
InDevs == IF scope = "registry" THEN Accounts ELSE {}
InProxyLists == IF scope = "registry" THEN SUBSET Proxies ELSE {}
InStakers == CASE scope = "registry" -> {}
               [] scope = "direct" -> {"owner"}
               [] scope = "shared" -> Accounts
               [] scope = "proxied" -> {"dev"}
InProxyReward == IF scope = "proxied" THEN MaxProxyReward ELSE 0
InTreasury == IF scope = "direct" THEN MaxTreasury ELSE 0
InSenders == IF scope = "registry" THEN Accounts ELSE {"owner"}
InStartBlocks == IF scope = "registry" THEN 1..BonusEndBlock ELSE {1}

\* ------------------------------------------------------------------ actions
\* instantiate (lines 29-57)
Instantiate ==
  /\ scope \in Scopes
  /\ \E msg \in InstantiateMsgs :
       /\ msg.start_block \in InStartBlocks
       /\ config = [astro_token |-> AstroToken, dev_addr |-> msg.dev_addr,
                    bonus_end_block |-> msg.bonus_end_block,
                    tokens_per_block |-> msg.tokens_per_block,
                    total_alloc_point |-> 0, owner |-> "owner",
                    start_block |-> msg.start_block,
                    allowed_reward_proxies |-> msg.allowed_reward_proxies,
                    vesting_contract |-> VestingContract]
  /\ pool_info = << >>
  /\ user_info = << >>
  /\ tmp_user_action = NoAction
  /\ height = 1
  /\ lp_balance = [lp \in LpSet |-> 0]
  /\ proxy_deposit = [p \in Proxies |-> 0]
  /\ proxy_reward = [p \in Proxies |-> 0]
  /\ astro_balance = 0
  /\ last = NoCall
  /\ totals = [emitted |-> 0, dev_cut |-> 0, paid |-> 0, payouts |-> 0]
  /\ prev_deposit = NoDeposit

Init ==
  /\ Instantiate
  /\ probe = NoProbe

\* ExecuteMsg::Add (lines 67-80)
AddCall(sender, lp_token, alloc_point, with_update, reward_proxy) ==
  Execute("Add", sender, add(Store, Querier, sender, lp_token, alloc_point, with_update, reward_proxy))
ExecAdd ==
  \E sender \in InSenders, lp_token \in InLps, alloc_point \in InAllocs,
     with_update \in InUpdates, reward_proxy \in InProxies :
    AddCall(sender, lp_token, alloc_point, with_update, reward_proxy)

\* ExecuteMsg::Set (lines 81-85)
SetCall(sender, lp_token, alloc_point, with_update) ==
  Execute("Set", sender, set(Store, Querier, sender, lp_token, alloc_point, with_update))
ExecSet ==
  \E sender \in InSenders, lp_token \in InLps, alloc_point \in InAllocs,
     with_update \in InUpdates :
    SetCall(sender, lp_token, alloc_point, with_update)

\* ExecuteMsg::MassUpdatePools (lines 86-88)
MassUpdatePoolsCall(sender) ==
  Execute("MassUpdatePools", sender,
          update_rewards_and_execute(Store, Querier, NoAddr,
                                     OnReply("MassUpdatePools", NoAddr, NoAddr, 0)))
ExecMassUpdatePools == \E sender \in InSenders : MassUpdatePoolsCall(sender)

\* ExecuteMsg::UpdatePool (lines 89-93)
UpdatePoolCall(sender, lp_token) ==
  Execute("UpdatePool", sender,
          update_rewards_and_execute(Store, Querier, lp_token,
                                     OnReply("UpdatePool", lp_token, NoAddr, 0)))
ExecUpdatePool ==
  \E sender \in InSenders, lp_token \in InLps : UpdatePoolCall(sender, lp_token)

\* The LP tokens in custody for a registered pool
Custody(lp_token) ==
  IF lp_token \notin DOMAIN pool_info THEN 0
  ELSE IF pool_info[lp_token].reward_proxy # NoAddr
    THEN proxy_deposit[pool_info[lp_token].reward_proxy]
  ELSE lp_balance[lp_token]

\* ExecuteMsg::Deposit (lines 94-102)
DepositCall(sender, lp_token, amount) ==
  Execute("Deposit", sender,
          update_rewards_and_execute(Store, Querier, lp_token,
                                     OnReply("Deposit", lp_token, sender, amount)))
ExecDeposit ==
  \E sender \in InStakers, lp_token \in InLps, amount \in {0, MaxAmount} :
    /\ Custody(lp_token) + amount <= MaxSupply
    /\ DepositCall(sender, lp_token, amount)

\* ExecuteMsg::Withdraw (lines 103-111)
WithdrawCall(sender, lp_token, amount) ==
  Execute("Withdraw", sender,
          update_rewards_and_execute(Store, Querier, lp_token,
                                     OnReply("Withdraw", lp_token, sender, amount)))
ExecWithdraw ==
  \E sender \in InStakers, lp_token \in InLps, amount \in {0, MaxAmount} :
    WithdrawCall(sender, lp_token, amount)

\* ExecuteMsg::EmergencyWithdraw (line 112)
EmergencyWithdrawCall(sender, lp_token) ==
  Execute("EmergencyWithdraw", sender, emergency_withdraw(Store, sender, lp_token))
ExecEmergencyWithdraw ==
  \E sender \in InStakers, lp_token \in InLps : EmergencyWithdrawCall(sender, lp_token)

\* ExecuteMsg::SetDev (line 113)
SetDevCall(sender, dev_address) ==
  Execute("SetDev", sender, set_dev(Store, sender, dev_address))
ExecSetDev ==
  \E sender \in Accounts, dev_address \in InDevs : SetDevCall(sender, dev_address)

\* ExecuteMsg::SetAllowedRewardProxies (lines 114-116)
SetAllowedRewardProxiesCall(sender, proxies) ==
  Execute("SetAllowedRewardProxies", sender, set_allowed_reward_proxies(Store, proxies))
ExecSetAllowedRewardProxies ==
  \E sender \in Accounts, proxies \in InProxyLists :
    SetAllowedRewardProxiesCall(sender, proxies)

\* The reply entry point (lines 281-303), called with the acknowledgment of the
\* vesting claim.  When it returns Err, or a message of its response fails, the
\* call that recorded the action fails with it and the slot it wrote is
\* discarded: the slot is empty afterwards and nothing of the deferred
\* operation is kept.
Resume(res) ==
  LET led == Dispatch(Ledger, res.st.pool_info, res.msgs, 1)
      ok == res.ok /\ led.ok
  IN /\ last = NoCall
     /\ config' = IF ok THEN res.st.config ELSE config
     /\ pool_info' = IF ok THEN res.st.pool_info ELSE pool_info
     /\ user_info' = IF ok THEN res.st.user_info ELSE user_info
     /\ tmp_user_action' = IF ok THEN res.st.tmp_user_action ELSE NoAction
     /\ lp_balance' = IF ok THEN led.lp_balance ELSE lp_balance
     /\ proxy_deposit' = IF ok THEN led.proxy_deposit ELSE proxy_deposit
     /\ astro_balance' = IF ok THEN led.astro_balance ELSE astro_balance
     /\ last' = Called("Reply", NoAddr, res, ok)
     /\ totals' = IF ok THEN Account(totals, tmp_user_action, res.st.pool_info) ELSE totals
     /\ prev_deposit' = IF ok THEN NoteDeposit(prev_deposit, tmp_user_action, res.st.pool_info) ELSE prev_deposit
     /\ UNCHANGED <<scope, height, proxy_reward, probe>>
Reply == Resume(reply(Store, Querier))

\* The caller has the response of the call; the next call can be made
Return ==
  /\ last # NoCall
  /\ last' = NoCall
  /\ UNCHANGED <<scope, storage_vars, env_vars, history_vars>>

\* A new block; a transaction and its reply run within one block
AdvanceBlock ==
  /\ last = NoCall
  /\ tmp_user_action.tag = "None"
  /\ height < MaxHeight
  /\ height' = height + 1
  /\ prev_deposit' = NoDeposit
  /\ UNCHANGED <<scope, storage_vars, lp_balance, proxy_deposit, proxy_reward,
                 astro_balance, last, totals, probe>>

\* A proxy has earned rewards: its cumulative reward balance grows, here in
\* one step to the largest balance
ProxyReport ==
  \E p \in Proxies, r \in {InProxyReward} :
    /\ last = NoCall
    /\ r > proxy_reward[p]
    /\ proxy_reward' = [proxy_reward EXCEPT ![p] = r]
    /\ UNCHANGED <<scope, storage_vars, height, lp_balance, proxy_deposit,
                   astro_balance, last, history_vars>>

\* The gauge receives reward tokens (the vesting contract pays a claim)
FundTreasury ==
  /\ last = NoCall
  /\ astro_balance < InTreasury
  /\ astro_balance' = astro_balance + 1
  /\ UNCHANGED <<scope, storage_vars, height, lp_balance, proxy_deposit,
                 proxy_reward, last, history_vars>>

Next ==
  \/ ExecAdd
  \/ ExecSet
  \/ ExecMassUpdatePools
  \/ ExecUpdatePool
  \/ ExecDeposit
  \/ ExecWithdraw
  \/ ExecEmergencyWithdraw
  \/ ExecSetDev
  \/ ExecSetAllowedRewardProxies
  \/ Reply
  \/ Return
  \/ AdvanceBlock
  \/ ProxyReport
  \/ FundTreasury

Spec == Init /\ [][Next]_vars

\* --------------------------------------------------- get_multiplier on its own
\* get_multiplier is applied to arguments drawn from 0..MaxBlock
InitMultiplier ==
  /\ Instantiate
  /\ scope = "registry"
  /\ config.start_block = 1
  /\ probe \in [done : {FALSE}, from : 0..MaxBlock, to : 0..MaxBlock,
                bonus_end_block : 0..MaxBlock]

ApplyGetMultiplier ==
  /\ ~probe.done
  /\ probe' = [done |-> TRUE, from |-> probe.from, to |-> probe.to,
               bonus_end_block |-> probe.bonus_end_block,
               result |-> get_multiplier(probe.from, probe.to, probe.bonus_end_block)]
  /\ UNCHANGED <<storage_vars, env_vars, last, scope, totals, prev_deposit>>

NextMultiplier == ApplyGetMultiplier

SpecMultiplier == InitMultiplier /\ [][NextMultiplier]_vars

\* ------------------------------------------------------------------ queries
\* query_deposit (lines 734-739)
query_deposit(users, lp_token, user) ==
  IF <<lp_token, user>> \in DOMAIN users THEN users[<<lp_token, user>>].amount ELSE 0

\* pending_token (lines 764-822); proxy_pending is the answer of the proxy to
\* ProxyQueryMsg::PendingToken, NoAnswer for None; pending_on_proxy is NoAnswer
\* for None; ok FALSE when a load or a checked operation fails
NoAnswer == -1
pending_token(st, q, lp_token, user, proxy_pending) ==
  IF lp_token \notin DOMAIN st.pool_info
    THEN [ok |-> FALSE, err |-> "NotFound", pending |-> 0, pending_on_proxy |-> NoAnswer]
  ELSE
    LET cfg == st.config
        pool == st.pool_info[lp_token]
        key == <<lp_token, user>>
        user_info_ == IF key \in DOMAIN st.user_info THEN st.user_info[key] ELSE DefaultUser
        lp_supply == IF pool.reward_proxy # NoAddr THEN q.proxy_deposit[pool.reward_proxy]
                     ELSE q.lp_balance[lp_token]
        on_proxy == IF pool.reward_proxy # NoAddr /\ lp_supply # 0
                       /\ proxy_pending # NoAnswer
                      THEN MulDecimal(user_info_.amount,
                                      pool.acc_per_share_on_proxy
                                        + FromRatio(proxy_pending, lp_supply))
                             - user_info_.reward_debt_proxy
                    ELSE NoAnswer
        accrues == q.height > pool.last_reward_block /\ lp_supply # 0
        r == calculate_rewards(q, pool, cfg)
        pending == IF accrues
                     THEN MulDecimal(user_info_.amount,
                                     pool.acc_per_share + FromRatio(r.v, lp_supply))
                            - user_info_.reward_debt
                   ELSE 0
    IN IF on_proxy # NoAnswer /\ on_proxy < 0
         THEN [ok |-> FALSE, err |-> "Overflow", pending |-> 0, pending_on_proxy |-> NoAnswer]
       ELSE IF accrues /\ ~r.ok
         THEN [ok |-> FALSE, err |-> r.err, pending |-> 0, pending_on_proxy |-> NoAnswer]
       ELSE IF pending < 0
         THEN [ok |-> FALSE, err |-> "Overflow", pending |-> 0, pending_on_proxy |-> NoAnswer]
       ELSE [ok |-> TRUE, err |-> "", pending |-> pending, pending_on_proxy |-> on_proxy]

\* pool_length (lines 727-732)
pool_length(pools) == Cardinality(DOMAIN pools)

\* ------------------------------------------------------------------- claims
StartOps == {"MassUpdatePools", "UpdatePool", "Deposit", "Withdraw"}
Pending == tmp_user_action.tag # "None"
HasClaimMsg(msgs) == \E i \in 1..Len(msgs) : msgs[i] = ClaimMsg
\* The messages of msgs that make call c on a contract of cs
Calls(msgs, cs, c) == {i \in 1..Len(msgs) : msgs[i].contract \in cs /\ msgs[i].call = c}

\* C1: while an intent is recorded, every MassUpdatePools, UpdatePool, Deposit
\* and Withdraw call fails with the repeated-reply error and leaves the recorded
\* intent, Config, every PoolInfo and every UserInfo as they were.
C1_SecondIntentRejected ==
  [][(Pending /\ last'.op \in StartOps)
       => (/\ ~last'.ok
           /\ last'.err = "Repeated reply definition!"
           /\ last'.msgs = <<>>
           /\ UNCHANGED <<config, pool_info, user_info, tmp_user_action>>)]_vars

\* A Deposit was attempted, and refused, while a Withdraw was recorded
C1_Witness ==
  /\ last.op = "Deposit"
  /\ last.err = "Repeated reply definition!"
  /\ tmp_user_action.tag = "Withdraw"

\* The deferred operation of the recorded action a was executed by this step,
\* once, with the parameters of a
Executed(a) ==
  LET old == query_deposit(user_info, a.lp_token, a.account)
      new == query_deposit(user_info', a.lp_token, a.account)
      in_msgs == Calls(last'.msgs, LpSet, "TransferFrom") \cup Calls(last'.msgs, LpSet, "SendFrom")
      out_msgs == Calls(last'.msgs, LpSet, "Transfer") \cup Calls(last'.msgs, Proxies, "Withdraw")
      settled(lp) == /\ pool_info'[lp].last_reward_block = Max(pool_info[lp].last_reward_block, height)
                     /\ pool_info'[lp].alloc_point = pool_info[lp].alloc_point
      others(lp) == \A o \in DOMAIN pool_info : o # lp => pool_info'[o] = pool_info[o]
  IN /\ DOMAIN pool_info' = DOMAIN pool_info
     /\ config' = config
     /\ CASE a.tag = "MassUpdatePools" ->
               /\ \A lp \in DOMAIN pool_info : settled(lp)
               /\ user_info' = user_info
               /\ last'.attr = IF DOMAIN pool_info = {} THEN "" ELSE "MassUpdatePools"
               /\ in_msgs = {} /\ out_msgs = {}
          [] a.tag = "UpdatePool" ->
               /\ settled(a.lp_token) /\ others(a.lp_token)
               /\ user_info' = user_info
               /\ last'.attr = "UpdatePool"
               /\ in_msgs = {} /\ out_msgs = {}
          [] a.tag = "Deposit" ->
               /\ settled(a.lp_token) /\ others(a.lp_token)
               /\ new = old + a.amount
               /\ \A k \in DOMAIN user_info : k # <<a.lp_token, a.account>>
                     => k \in DOMAIN user_info' /\ user_info'[k] = user_info[k]
               /\ last'.attr = "Deposit"
               /\ out_msgs = {}
               /\ Cardinality(in_msgs) = IF a.amount = 0 THEN 0 ELSE 1
               /\ \A i \in in_msgs : /\ last'.msgs[i].contract = a.lp_token
                                     /\ last'.msgs[i].account = a.account
                                     /\ last'.msgs[i].amount = a.amount
          [] a.tag = "Withdraw" ->
               /\ settled(a.lp_token) /\ others(a.lp_token)
               /\ new = old - a.amount
               /\ \A k \in DOMAIN user_info : k # <<a.lp_token, a.account>>
                     => k \in DOMAIN user_info' /\ user_info'[k] = user_info[k]
               /\ last'.attr = "Withdraw"
               /\ in_msgs = {}
               /\ Cardinality(out_msgs) = IF a.amount = 0 THEN 0 ELSE 1
               /\ \A i \in out_msgs : /\ last'.msgs[i].account = a.account
                                      /\ last'.msgs[i].amount = a.amount

\* C2 as stated: every reply processed while an intent is recorded leaves the
\* slot empty and has executed the recorded operation exactly once, also when
\* that operation is invalid at resume time.
C2_Original ==
  [][(Pending /\ last'.op = "Reply")
       => (/\ tmp_user_action' = NoAction
           /\ last'.ok
           /\ Executed(tmp_user_action))]_vars

\* C2 as amended: every reply processed while an intent is recorded leaves the
\* slot empty; when it succeeds it has executed the operation with exactly the
\* recorded tag and parameters exactly once; when the operation is invalid at
\* resume time the reply fails with its error and nothing of it is executed
\* (no message, Config, PoolInfo and UserInfo unchanged).
C2_ReplyRunsRecordedAction ==
  [][(Pending /\ last'.op = "Reply")
       => (/\ tmp_user_action' = NoAction
           /\ last'.ok => Executed(tmp_user_action)
           /\ ~last'.ok => (/\ last'.msgs = <<>>
                           /\ UNCHANGED <<config, pool_info, user_info>>))]_vars

\* A reply has run a recorded Deposit and asked for the LP tokens
C2_Witness ==
  /\ last.op = "Reply"
  /\ last.intent = "Deposit"
  /\ last.ok
  /\ last.attr = "Deposit"
  /\ Calls(last.msgs, LpSet, "TransferFrom") # {}
  /\ tmp_user_action = NoAction

\* C3: a reply processed while no intent is recorded succeeds, emits no message
\* and changes neither Config, nor a PoolInfo, nor a UserInfo, nor the slot.
C3_ReplyWithoutIntentIsNoOp ==
  [][(~Pending /\ last'.op = "Reply")
       => (/\ last'.ok
           /\ last'.msgs = <<>>
           /\ UNCHANGED <<config, pool_info, user_info, tmp_user_action>>
           /\ UNCHANGED <<lp_balance, proxy_deposit, astro_balance>>)]_vars

\* A reply was processed with an empty slot, with pools and a position stored
C3_Witness ==
  /\ last.op = "Reply"
  /\ last.intent = "None"
  /\ last.ok
  /\ DOMAIN pool_info # {}
  /\ DOMAIN user_info # {}

ExecuteOps == StartOps \cup {"EmergencyWithdraw", "Add", "Set", "SetDev", "SetAllowedRewardProxies"}
BypassOps == {"EmergencyWithdraw", "SetDev", "SetAllowedRewardProxies"}
\* This step is a call of Add, or of Set, with the given with_update
AddOrSetCall(with_update) ==
  \/ /\ last'.op = "Add"
     /\ \E sender \in Accounts, lp_token \in LpSet, alloc_point \in 0..MaxAlloc,
           reward_proxy \in Proxies \cup {NoAddr} :
          AddCall(sender, lp_token, alloc_point, with_update, reward_proxy)
  \/ /\ last'.op = "Set"
     /\ \E sender \in Accounts, lp_token \in LpSet, alloc_point \in 0..MaxAlloc :
          SetCall(sender, lp_token, alloc_point, with_update)

\* C4 as stated: while an intent is recorded, every execute call (Deposit,
\* Withdraw, UpdatePool, MassUpdatePools, EmergencyWithdraw, Add, Set, SetDev,
\* SetAllowedRewardProxies) is rejected and changes nothing, so Config, PoolInfo
\* and UserInfo change only when the reply is processed.
C4_Original ==
  [][(Pending /\ last'.op \in ExecuteOps)
       => (~last'.ok /\ UNCHANGED <<config, pool_info, user_info>>)]_vars

\* C4 as amended: while an intent is recorded, the calls that are rejected, and
\* change nothing, are Deposit, Withdraw, UpdatePool, MassUpdatePools and Add and
\* Set with with_update = true; no execute call changes the recorded intent.
\* EmergencyWithdraw, SetDev, SetAllowedRewardProxies and Add and Set with
\* with_update = false are not rejected by a recorded intent.
C4_PendingRejectsUpdatingCalls ==
  [][Pending
       => (/\ (last'.op \in StartOps \/ AddOrSetCall(TRUE))
                => (/\ ~last'.ok
                    /\ last'.msgs = <<>>
                    /\ UNCHANGED <<config, pool_info, user_info>>)
           /\ last'.op \in ExecuteOps => UNCHANGED tmp_user_action)]_vars

\* The owner's Add or Set was refused as a second intent while one was recorded
C4_Witness ==
  /\ Pending
  /\ last.op \in {"Add", "Set"}
  /\ last.sender = config.owner
  /\ last.err = "Repeated reply definition!"

\* C5 as stated: from Idle, a successful EmergencyWithdraw, Add, Set, SetDev or
\* SetAllowedRewardProxies, whatever its parameters, records no intent and
\* issues no claim to the vesting contract.
C5_Original ==
  [][(~Pending /\ last'.op \in BypassOps \cup {"Add", "Set"} /\ last'.ok)
       => (~Pending' /\ ~HasClaimMsg(last'.msgs))]_vars

\* C5 as amended: from Idle, a successful EmergencyWithdraw, SetDev or
\* SetAllowedRewardProxies, and a successful Add or Set with with_update = false,
\* records no intent and issues no claim; a successful Add with
\* with_update = true records a MassUpdatePools intent, a successful Set with
\* with_update = true records an UpdatePool intent for its pool, and both issue
\* the claim.
C5_BypassUnlessWithUpdate ==
  [][(~Pending /\ last'.ok)
       => (/\ (last'.op \in BypassOps \/ AddOrSetCall(FALSE))
                => (~Pending' /\ ~HasClaimMsg(last'.msgs))
           /\ AddOrSetCall(TRUE)
                => (/\ HasClaimMsg(last'.msgs)
                    /\ last'.op = "Add" => tmp_user_action'.tag = "MassUpdatePools"
                    /\ last'.op = "Set" => (/\ tmp_user_action'.tag = "UpdatePool"
                                            /\ tmp_user_action'.lp_token \in DOMAIN pool_info)))]_vars

\* A pool was added without update from Idle: no intent, no claim
C5_Witness ==
  /\ last.op = "Add"
  /\ last.ok
  /\ last.intent = "None"
  /\ ~Pending
  /\ last.msgs = <<>>
  /\ DOMAIN pool_info # {}

\* C6: in every reachable state Config.total_alloc_point is the sum of
\* alloc_point over the registered pools.
C6_TotalAllocIsSum == config.total_alloc_point = SumAlloc(pool_info, DOMAIN pool_info)

\* Set has just succeeded with two pools registered, one of alloc_point 0
C6_Witness ==
  /\ last.op = "Set"
  /\ last.ok
  /\ Cardinality(DOMAIN pool_info) = 2
  /\ config.total_alloc_point = 1

\* C7: Add called by the owner for an LP token that already has a pool fails
\* with TokenPoolAlreadyExists and leaves total_alloc_point, every PoolInfo and
\* the pool count unchanged.
C7_AddTwiceIsConflict ==
  [][last'.op = "Add" =>
     \A lp_token \in DOMAIN pool_info, alloc_point \in 0..MaxAlloc, with_update \in BOOLEAN,
        reward_proxy \in Proxies \cup {NoAddr} :
       AddCall(config.owner, lp_token, alloc_point, with_update, reward_proxy)
         => (/\ ~last'.ok
             /\ last'.err = "TokenPoolAlreadyExists"
             /\ config'.total_alloc_point = config.total_alloc_point
             /\ pool_info' = pool_info
             /\ pool_length(pool_info') = pool_length(pool_info))]_vars

\* The owner's Add for a registered LP token was refused
C7_Witness ==
  /\ last.op = "Add"
  /\ last.sender = config.owner
  /\ last.err = "TokenPoolAlreadyExists"
  /\ pool_length(pool_info) > 0

\* The withdraw recorded as action a, run by this step, failed with error e
\* without a message and without a write to the pool or the user's position
WithdrawFailed(a, e) ==
  /\ ~last'.ok
  /\ last'.err = e
  /\ last'.msgs = <<>>
  /\ user_info' = user_info
  /\ pool_info' = pool_info
  /\ UNCHANGED <<lp_balance, proxy_deposit, astro_balance>>

\* C8 as stated: for every pool, user and amount with amount above the user's
\* stake (0 for a user without a position), the withdraw fails with
\* BalanceTooSmall, emits no transfer and leaves the position and the pool
\* unchanged.
C8_Original ==
  [][(/\ last'.op = "Reply"
      /\ tmp_user_action.tag = "Withdraw"
      /\ tmp_user_action.amount
           > query_deposit(user_info, tmp_user_action.lp_token, tmp_user_action.account))
       => WithdrawFailed(tmp_user_action, "BalanceTooSmall")]_vars

\* C8 as amended: for every pool, every user with a stored position in it and
\* every amount above the user's stake, the withdraw fails with BalanceTooSmall,
\* emits no transfer and leaves the position and the pool unchanged; for a user
\* without a stored position it fails with NotFound instead, likewise without
\* a transfer or a change.
C8_WithdrawAboveStake ==
  [][(/\ last'.op = "Reply"
      /\ tmp_user_action.tag = "Withdraw"
      /\ tmp_user_action.amount
           > query_deposit(user_info, tmp_user_action.lp_token, tmp_user_action.account))
       => IF <<tmp_user_action.lp_token, tmp_user_action.account>> \in DOMAIN user_info
            THEN WithdrawFailed(tmp_user_action, "BalanceTooSmall")
          ELSE WithdrawFailed(tmp_user_action, "NotFound")]_vars

\* A withdraw above the stake of a stored position was refused
C8_Witness ==
  /\ last.op = "Reply"
  /\ last.intent = "Withdraw"
  /\ last.err = "BalanceTooSmall"
  /\ \E k \in DOMAIN user_info : user_info[k].amount < MaxAmount

\* C9: EmergencyWithdraw by a user with a position succeeds with exactly one
\* message, the transfer of the user's full stake (by the proxy for a proxied
\* pool, by the LP token otherwise), pays no reward, deletes the position so
\* that query_deposit returns 0, and leaves every PoolInfo (acc_per_share,
\* acc_per_share_on_proxy, last_reward_block) unchanged.
C9_EmergencyWithdraw ==
  [][\A sender \in Accounts, lp_token \in LpSet :
       (/\ last'.op = "EmergencyWithdraw"
        /\ <<lp_token, sender>> \in DOMAIN user_info
        /\ EmergencyWithdrawCall(sender, lp_token))
         => LET stake == user_info[<<lp_token, sender>>].amount
                proxy == pool_info[lp_token].reward_proxy
            IN /\ last'.ok
               /\ Len(last'.msgs) = 1
               /\ last'.msgs[1].amount = stake
               /\ last'.msgs[1].account = sender
               /\ IF proxy # NoAddr
                    THEN /\ last'.msgs[1].contract = proxy
                         /\ last'.msgs[1].call = "EmergencyWithdraw"
                         /\ proxy_deposit'[proxy] = proxy_deposit[proxy] - stake
                         /\ lp_balance' = lp_balance
                  ELSE /\ last'.msgs[1].contract = lp_token
                       /\ last'.msgs[1].call = "Transfer"
                       /\ lp_balance'[lp_token] = lp_balance[lp_token] - stake
                       /\ proxy_deposit' = proxy_deposit
               /\ astro_balance' = astro_balance
               /\ user_info' = Remove(user_info, <<lp_token, sender>>)
               /\ query_deposit(user_info', lp_token, sender) = 0
               /\ pool_info' = pool_info
               /\ config' = config]_vars

\* A staker left by EmergencyWithdraw with its stake while blocks of the pool
\* were not settled, so with reward pending
C9_Witness ==
  /\ last.op = "EmergencyWithdraw"
  /\ last.ok
  /\ last.msgs[1].amount > 0
  /\ <<last.msgs[1].contract, last.sender>> \notin DOMAIN user_info
  /\ \E lp_token \in DOMAIN pool_info :
       /\ pool_info[lp_token].last_reward_block < height
       /\ pool_info[lp_token].alloc_point > 0
       /\ last.msgs[1].contract \in {lp_token, pool_info[lp_token].reward_proxy}

\* C10: Add, Set and SetAllowedRewardProxies by a sender that is not the owner,
\* and SetDev by a sender that is not the dev, fail with Unauthorized and leave
\* Config and every PoolInfo unchanged.
C10_AdminNeedsRole ==
  [][(\/ last'.op \in {"Add", "Set", "SetAllowedRewardProxies"} /\ last'.sender # config.owner
      \/ last'.op = "SetDev" /\ last'.sender # config.dev_addr)
       => (/\ ~last'.ok
           /\ last'.err = "Unauthorized"
           /\ UNCHANGED <<config, pool_info>>)]_vars

\* C11: for all from <= to and every bonus_end_block, get_multiplier returns
\* (to - from) * BONUS_MULTIPLIER when to <= bonus_end_block, to - from when
\* bonus_end_block <= from, and (bonus_end_block - from) * BONUS_MULTIPLIER +
\* (to - bonus_end_block) when from < bonus_end_block < to; where two of the
\* cases apply, both values are the one returned.
C11_MultiplierPiecewise ==
  (probe.done /\ probe.from <= probe.to)
    => LET from == probe.from
           to == probe.to
           bonus_end == probe.bonus_end_block
           m == probe.result
       IN /\ m.ok
          /\ to <= bonus_end => m.v = (to - from) * BONUS_MULTIPLIER
          /\ bonus_end <= from => m.v = to - from
          /\ (from < bonus_end /\ bonus_end < to)
               => m.v = (bonus_end - from) * BONUS_MULTIPLIER + (to - bonus_end)

\* get_multiplier was applied to a range that starts in the bonus period and
\* ends after it
C11_Witness ==
  /\ probe.done
  /\ probe.from < probe.bonus_end_block
  /\ probe.bonus_end_block < probe.to
  /\ probe.result.ok
  /\ probe.result.v > probe.to - probe.from
  /\ probe.result.v < (probe.to - probe.from) * BONUS_MULTIPLIER

\* A reply that succeeds in this step runs a recorded UpdatePool or
\* MassUpdatePools: pool settlement and nothing else
SettlementReply ==
  /\ last'.op = "Reply"
  /\ last'.ok
  /\ tmp_user_action.tag \in {"UpdatePool", "MassUpdatePools"}
\* The pool lp is settled by that reply with no block since its last settlement
Resettled(lp) ==
  /\ lp \in SettledBy(tmp_user_action, pool_info)
  /\ pool_info[lp].last_reward_block >= height
\* The messages of msgs that make call c on a contract of cs for the dev account
DevCalls(msgs, cs, c) == {i \in Calls(msgs, cs, c) : msgs[i].account = config.dev_addr}

\* C12 as stated: settling a pool, direct or proxied, again at the block height
\* of its previous settlement changes neither acc_per_share nor
\* acc_per_share_on_proxy nor last_reward_block and emits no dev transfer.
C12_Original ==
  [][SettlementReply =>
       \A lp \in DOMAIN pool_info : Resettled(lp) =>
         /\ pool_info'[lp].acc_per_share = pool_info[lp].acc_per_share
         /\ pool_info'[lp].acc_per_share_on_proxy = pool_info[lp].acc_per_share_on_proxy
         /\ pool_info'[lp].last_reward_block = pool_info[lp].last_reward_block
         /\ DevCalls(last'.msgs, {pool_info[lp].reward_proxy}, "SendRewards") = {}
         /\ (\A o \in SettledBy(tmp_user_action, pool_info) : Resettled(o))
              => DevCalls(last'.msgs, {AstroToken}, "Transfer") = {}]_vars

\* C12 as amended: settling a pool again at the block height of its previous
\* settlement changes neither acc_per_share nor last_reward_block and emits no
\* reward-token transfer to dev; for a pool without a proxy it changes nothing
\* and emits no message; for a pool with a proxy holding deposits the proxied
\* track is not bound to the height: it adds the share of the proxy reward
\* earned since the snapshot, less the dev tenth, to acc_per_share_on_proxy and
\* asks the proxy to send that tenth to dev.
C12_SettlementIdempotent ==
  [][SettlementReply =>
       \A lp \in DOMAIN pool_info : Resettled(lp) =>
         LET pool == pool_info[lp]
             proxy == pool.reward_proxy
             delta == proxy_reward[proxy] - pool.proxy_reward_balance_before_update
             sent == DevCalls(last'.msgs, {proxy}, "SendRewards")
         IN /\ pool_info'[lp].acc_per_share = pool.acc_per_share
            /\ pool_info'[lp].last_reward_block = pool.last_reward_block
            /\ (\A o \in SettledBy(tmp_user_action, pool_info) : Resettled(o))
                 => DevCalls(last'.msgs, {AstroToken}, "Transfer") = {}
            /\ IF proxy = NoAddr \/ proxy_deposit[proxy] = 0
                 THEN /\ pool_info'[lp] = pool
                      /\ proxy # NoAddr => sent = {}
                      /\ proxy = NoAddr => last'.msgs = <<>>
               ELSE /\ pool_info'[lp].acc_per_share_on_proxy
                         = pool.acc_per_share_on_proxy
                           + FromRatio(delta - (delta \div 10), proxy_deposit[proxy])
                    /\ Cardinality(sent) = 1
                    /\ \A i \in sent : last'.msgs[i].amount = delta \div 10]_vars

\* An UpdatePool reply has settled a pool with a proxy holding deposits without
\* running the direct track (no reward-token transfer: no block had passed) and
\* has credited proxy rewards all the same
C12_Witness ==
  /\ last.op = "Reply" /\ last.ok /\ last.intent = "UpdatePool"
  /\ \E lp \in DOMAIN pool_info :
       LET proxy == pool_info[lp].reward_proxy
       IN /\ proxy # NoAddr
          /\ proxy_deposit[proxy] # 0
          /\ pool_info[lp].last_reward_block = height
          /\ pool_info[lp].acc_per_share_on_proxy > 0
          /\ Calls(last.msgs, {AstroToken}, "Transfer") = {}
          /\ DevCalls(last.msgs, {proxy}, "SendRewards") # {}

\* A reply that succeeds in this step runs a recorded Withdraw that takes back
\* what the last deposit of the same user in the same pool at this height put in
RoundTrip ==
  /\ last'.op = "Reply"
  /\ last'.ok
  /\ tmp_user_action.tag = "Withdraw"
  /\ tmp_user_action.lp_token = prev_deposit.lp_token
  /\ tmp_user_action.account = prev_deposit.account
  /\ tmp_user_action.amount = prev_deposit.amount
  /\ ~prev_deposit.returned
\* The messages of msgs that send a reward to account: reward tokens from the
\* gauge or proxy rewards from a proxy
RewardCalls(msgs, account) ==
  {i \in 1..Len(msgs) :
     /\ msgs[i].account = account
     /\ \/ msgs[i].contract = AstroToken /\ msgs[i].call = "Transfer"
        \/ msgs[i].contract \in Proxies /\ msgs[i].call = "SendRewards"}
\* How many of them the settlement of pool at the height of its last settlement
\* sends, account being the user: the dev tenth of a proxy holding deposits
DevTenths(pool, account) ==
  IF /\ account = config.dev_addr
     /\ pool.reward_proxy # NoAddr
     /\ proxy_deposit[pool.reward_proxy] # 0
    THEN 1
  ELSE 0

\* C13 as stated: a completed deposit of amount followed at the same height by
\* a completed withdraw of the same amount pays the user no reward in the
\* withdraw, restores the stake of before the deposit and leaves reward_debt
\* equal to stake * acc_per_share.
C13_Original ==
  [][RoundTrip =>
       LET a == tmp_user_action
           key == <<a.lp_token, a.account>>
       IN /\ Cardinality(RewardCalls(last'.msgs, a.account))
               = DevTenths(pool_info[a.lp_token], a.account)
          /\ query_deposit(user_info', a.lp_token, a.account) = prev_deposit.stake
          /\ user_info'[key].reward_debt
               = MulDecimal(prev_deposit.stake, pool_info'[a.lp_token].acc_per_share)]_vars

\* C13 as amended: a completed deposit of amount followed at the same height by
\* a completed withdraw of the same amount pays the user no reward tokens in
\* the withdraw, restores the stake of before the deposit and leaves
\* reward_debt equal to stake * acc_per_share; it pays no proxy reward either
\* when the pool has no proxy or no proxy reward was credited to the pool since
\* the deposit, the settlement of the withdraw included (what a proxy earns in
\* between is credited whatever the height, and paid by the withdraw).
C13_RoundTrip ==
  [][RoundTrip =>
       LET a == tmp_user_action
           key == <<a.lp_token, a.account>>
           pool == pool_info[a.lp_token]
       IN /\ Calls(last'.msgs, {AstroToken}, "Transfer") = {}
          /\ (\/ pool.reward_proxy = NoAddr
              \/ pool_info'[a.lp_token].acc_per_share_on_proxy = prev_deposit.acc_on_proxy)
               => Cardinality(RewardCalls(last'.msgs, a.account)) = DevTenths(pool, a.account)
          /\ query_deposit(user_info', a.lp_token, a.account) = prev_deposit.stake
          /\ user_info'[key].reward_debt
               = MulDecimal(prev_deposit.stake, pool_info'[a.lp_token].acc_per_share)]_vars

\* A user with a stake has deposited and taken the same amount back at one
\* height, in a pool that had accrued rewards
C13_Witness ==
  /\ last.op = "Reply" /\ last.ok /\ last.intent = "Withdraw"
  /\ prev_deposit.returned
  /\ prev_deposit.amount > 0
  /\ prev_deposit.stake > 0
  /\ LET key == <<prev_deposit.lp_token, prev_deposit.account>>
     IN /\ key \in DOMAIN user_info
        /\ user_info[key].amount = prev_deposit.stake
        /\ user_info[key].reward_debt > 0

\* A reply that succeeds in this step settles the pool lp on the direct track:
\* blocks have passed since its last settlement and its LP supply is not zero
LpSupply(lp) ==
  IF pool_info[lp].reward_proxy # NoAddr THEN proxy_deposit[pool_info[lp].reward_proxy]
  ELSE lp_balance[lp]
Accrues(lp) ==
  /\ last'.op = "Reply"
  /\ last'.ok
  /\ lp \in SettledBy(tmp_user_action, pool_info)
  /\ height > pool_info[lp].last_reward_block
  /\ LpSupply(lp) # 0
  /\ config.total_alloc_point # 0
\* tokenRewards of that settlement: multiplier * tokens_per_block * alloc_point
\* / total_alloc_point
Emission(lp) ==
  (get_multiplier(pool_info[lp].last_reward_block, height, config.bonus_end_block).v
     * config.tokens_per_block * pool_info[lp].alloc_point) \div config.total_alloc_point

\* C14 as stated: a direct-track settlement with height > last_reward_block and
\* nonzero LP supply increases acc_per_share by (tokenRewards - devCut) / supply,
\* devCut being tokenRewards / 10.
C14_Original ==
  [][\A lp \in DOMAIN pool_info : Accrues(lp) =>
        pool_info'[lp].acc_per_share
          = pool_info[lp].acc_per_share
            + FromRatio(Emission(lp) - (Emission(lp) \div 10), LpSupply(lp))]_vars

\* C14 as amended: a direct-track settlement with height > last_reward_block
\* and nonzero LP supply increases acc_per_share by tokenRewards / supply, the
\* whole of tokenRewards = multiplier * tokens_per_block * alloc_point /
\* total_alloc_point, and asks for a transfer of devCut = tokenRewards / 10,
\* capped at the gauge's reward-token balance, to dev on top of it.
C14_DirectTrackFormula ==
  [][\A lp \in DOMAIN pool_info : Accrues(lp) =>
        /\ pool_info'[lp].acc_per_share
             = pool_info[lp].acc_per_share + FromRatio(Emission(lp), LpSupply(lp))
        /\ \E i \in DevCalls(last'.msgs, {AstroToken}, "Transfer") :
             last'.msgs[i].amount = Min(Emission(lp) \div 10, astro_balance)]_vars

\* A reply has settled one block of the bonus period of a pool holding LP
\* tokens: the stakers are credited and dev is sent a tenth
C14_Witness ==
  /\ last.op = "Reply" /\ last.ok
  /\ \E i \in DevCalls(last.msgs, {AstroToken}, "Transfer") : last.msgs[i].amount >= 1
  /\ \E lp \in DOMAIN pool_info :
       /\ pool_info[lp].last_reward_block = height
       /\ pool_info[lp].acc_per_share >= FromRatio(BONUS_MULTIPLIER, MaxSupply)

\* C15: across every step (Add, Set, settlement, deposit, withdraw, emergency
\* withdraw and the others) every registered pool stays registered and its
\* acc_per_share, acc_per_share_on_proxy and last_reward_block never decrease.
C15_AccrualMonotone ==
  [][\A lp \in DOMAIN pool_info :
       /\ lp \in DOMAIN pool_info'
       /\ pool_info'[lp].acc_per_share >= pool_info[lp].acc_per_share
       /\ pool_info'[lp].acc_per_share_on_proxy >= pool_info[lp].acc_per_share_on_proxy
       /\ pool_info'[lp].last_reward_block >= pool_info[lp].last_reward_block]_vars

\* A pool holding LP tokens has been settled past the bonus period and its
\* acc_per_share has grown
C15_Witness ==
  \E lp \in DOMAIN pool_info :
    /\ pool_info[lp].last_reward_block > BonusEndBlock
    /\ pool_info[lp].acc_per_share > FromRatio(BONUS_MULTIPLIER, MaxSupply)
    /\ LpSupply(lp) = MaxSupply

\* C16 as stated: in every reachable state the last_reward_block of every
\* registered pool is at most the current block height, also right after Add
\* whatever the configured start_block.
C16_Original ==
  \A lp \in DOMAIN pool_info : pool_info[lp].last_reward_block <= height

\* C16 as amended: in every reachable state the last_reward_block of every
\* registered pool is at most the larger of the current block height and the
\* configured start_block: at most the height once the height has reached
\* start_block, and no more than start_block before.
C16_LastRewardBlockBounded ==
  \A lp \in DOMAIN pool_info :
    /\ height >= config.start_block => pool_info[lp].last_reward_block <= height
    /\ height < config.start_block => pool_info[lp].last_reward_block <= config.start_block

\* With rewards starting at block 2, a pool has been settled at a later height
C16_Witness ==
  /\ config.start_block > 1
  /\ height > config.start_block
  /\ \E lp \in DOMAIN pool_info : pool_info[lp].last_reward_block = height

\* C17: right after every completed deposit or withdraw the user's reward_debt
\* is floor(amount * acc_per_share) and the user's reward_debt_proxy is
\* floor(amount * acc_per_share_on_proxy), for the new stake and the
\* accumulators the same operation stored: the pending reward is zero on both
\* tracks.
C17_DebtResetAfterStakeChange ==
  [][(/\ last'.op = "Reply"
      /\ last'.ok
      /\ tmp_user_action.tag \in {"Deposit", "Withdraw"})
       => LET a == tmp_user_action
              key == <<a.lp_token, a.account>>
          IN /\ key \in DOMAIN user_info'
             /\ user_info'[key].reward_debt
                  = MulDecimal(user_info'[key].amount, pool_info'[a.lp_token].acc_per_share)
             /\ user_info'[key].reward_debt_proxy
                  = MulDecimal(user_info'[key].amount,
                               pool_info'[a.lp_token].acc_per_share_on_proxy)]_vars

\* A deposit or withdraw has completed in a pool that has accrued on both
\* tracks and has left the user a stake with a debt on both
C17_Witness ==
  /\ last.op = "Reply" /\ last.ok /\ last.intent \in {"Deposit", "Withdraw"}
  /\ \E key \in DOMAIN user_info :
       /\ user_info[key].amount > 0
       /\ user_info[key].reward_debt > 0
       /\ user_info[key].reward_debt_proxy > 0

\* C18: in every reachable state, for every stored position,
\* floor(amount * acc_per_share) >= reward_debt and
\* floor(amount * acc_per_share_on_proxy) >= reward_debt_proxy: the subtraction
\* of the pending reward in deposit and withdraw cannot underflow.
C18_PendingNeverNegative ==
  \A key \in DOMAIN user_info :
    /\ key[1] \in DOMAIN pool_info
    /\ MulDecimal(user_info[key].amount, pool_info[key[1]].acc_per_share)
         >= user_info[key].reward_debt
    /\ MulDecimal(user_info[key].amount, pool_info[key[1]].acc_per_share_on_proxy)
         >= user_info[key].reward_debt_proxy

\* A position with a reward debt has a positive pending reward on both tracks
C18_Witness ==
  \E key \in DOMAIN user_info :
    /\ user_info[key].reward_debt > 0
    /\ MulDecimal(user_info[key].amount, pool_info[key[1]].acc_per_share)
         > user_info[key].reward_debt
    /\ MulDecimal(user_info[key].amount, pool_info[key[1]].acc_per_share_on_proxy)
         > user_info[key].reward_debt_proxy

NotCredited(o) == height <= pool_info[o].last_reward_block \/ LpSupply(o) = 0

\* C20: a settlement at a height above last_reward_block of a pool whose LP
\* supply is zero advances last_reward_block to the height, leaves both
\* accumulators alone and sends dev nothing; and a settlement that does credit
\* a pool credits the emission of the blocks after last_reward_block only, so
\* the blocks of a zero-supply range are never credited later.
C20_ZeroSupplyGapNotReplayed ==
  [][(last'.op = "Reply" /\ last'.ok) =>
       \A lp \in SettledBy(tmp_user_action, pool_info) :
         /\ (height > pool_info[lp].last_reward_block /\ LpSupply(lp) = 0) =>
              /\ pool_info'[lp].last_reward_block = height
              /\ pool_info'[lp].acc_per_share = pool_info[lp].acc_per_share
              /\ pool_info'[lp].acc_per_share_on_proxy
                   = pool_info[lp].acc_per_share_on_proxy
              /\ (\A o \in SettledBy(tmp_user_action, pool_info) : NotCredited(o))
                   => DevCalls(last'.msgs, Proxies \cup {AstroToken}, "Transfer")
                        \cup DevCalls(last'.msgs, Proxies, "SendRewards") = {}
         /\ Accrues(lp) =>
              /\ pool_info'[lp].last_reward_block = height
              /\ pool_info'[lp].acc_per_share - pool_info[lp].acc_per_share
                   = FromRatio(Emission(lp), LpSupply(lp))]_vars

\* A first deposit has settled a pool that earns rewards at a height past the
\* bonus period while the pool held no LP tokens: nothing was credited
C20_Witness ==
  /\ last.op = "Reply" /\ last.ok /\ last.intent = "Deposit"
  /\ height > BonusEndBlock
  /\ DevCalls(last.msgs, {AstroToken}, "Transfer") = {}
  /\ \E lp \in DOMAIN pool_info :
       /\ Calls(last.msgs, {lp}, "TransferFrom") # {}
       /\ pool_info[lp].alloc_point > 0
       /\ pool_info[lp].last_reward_block = height
       /\ pool_info[lp].acc_per_share = 0
       /\ lp_balance[lp] = MaxAmount

\* This step is a call of UpdatePool, Deposit or Withdraw that names lp_token
NamesPool(lp_token) ==
  /\ last'.op \in {"UpdatePool", "Deposit", "Withdraw"}
  /\ \E sender \in Accounts :
       \/ UpdatePoolCall(sender, lp_token)
       \/ \E amount \in 0..MaxAmount :
            \/ DepositCall(sender, lp_token, amount)
            \/ WithdrawCall(sender, lp_token, amount)

\* C21: with no intent recorded, an UpdatePool, Deposit or Withdraw that names
\* an unregistered pool fails with NotFound without a message and leaves the
\* slot empty and Config, the pools and the positions unchanged; and a call
\* that names a registered pool is then accepted: it records its intent and is
\* not refused as a repeated intent.
C21_NotFoundCommitsNothing ==
  [][(~Pending /\ last'.op \in {"UpdatePool", "Deposit", "Withdraw"}) =>
       \A lp_token \in LpSet : NamesPool(lp_token) =>
         IF lp_token \notin DOMAIN pool_info
           THEN /\ ~last'.ok
                /\ last'.err = "NotFound"
                /\ last'.msgs = <<>>
                /\ tmp_user_action' = NoAction
                /\ UNCHANGED <<config, pool_info, user_info>>
         ELSE /\ last'.ok
              /\ tmp_user_action'.tag = last'.op
              /\ tmp_user_action'.lp_token = lp_token]_vars

\* A Deposit naming a pool that is not registered was refused and no intent
\* is recorded
C21_Witness ==
  /\ last.op = "Deposit"
  /\ last.intent = "None"
  /\ last.err = "NotFound"
  /\ tmp_user_action = NoAction
  /\ pool_info = << >>

\* The reward-token transfers of msgs, in order
RewardTransfers(msgs) ==
  SelectSeq(msgs, LAMBDA m : m.contract = AstroToken /\ m.call = "Transfer")
\* The pending reward tokens of the user of the recorded Deposit or Withdraw a
\* as the reply of this step computes them, on the pool as it settles it
Requested(a) ==
  LET key == <<a.lp_token, a.account>>
  IN IF a.tag \in {"Deposit", "Withdraw"} /\ key \in DOMAIN user_info
       THEN MulDecimal(user_info[key].amount, pool_info'[a.lp_token].acc_per_share)
              - user_info[key].reward_debt
     ELSE 0
\* The transfers the reply of this step has to ask for, each capped at the
\* gauge's reward-token balance: the dev tenth of every pool it credits, from
\* index i of the key order on, and then the pending reward of the user
RECURSIVE CappedDevCuts(_)
CappedDevCuts(i) ==
  IF i > Len(LpTokens) THEN <<>>
  ELSE (IF LpTokens[i] \in DOMAIN pool_info /\ Accrues(LpTokens[i])
          THEN << [to |-> config.dev_addr,
                   amount |-> Min(Emission(LpTokens[i]) \div 10, astro_balance)] >>
        ELSE <<>>) \o CappedDevCuts(i + 1)
CappedPayout(a) ==
  IF Requested(a) # 0
    THEN << [to |-> a.account, amount |-> Min(Requested(a), astro_balance)] >>
  ELSE <<>>

\* C22: the reward-token transfers of every completed settlement, deposit or
\* withdraw are the dev tenth of each credited pool and the pending reward of
\* the user, each with the amount min(requested amount, reward-token balance
\* of the gauge); and whatever the payout was cut to, the user's reward_debt
\* is reset to stake * acc_per_share, so nothing of it stays pending.
C22_TransfersCappedShortfallDropped ==
  [][(last'.op = "Reply" /\ last'.ok /\ Pending) =>
       LET a == tmp_user_action
           key == <<a.lp_token, a.account>>
           sent == RewardTransfers(last'.msgs)
           due == CappedDevCuts(1) \o CappedPayout(a)
       IN /\ Len(sent) = Len(due)
          /\ \A i \in 1..Len(due) : /\ sent[i].account = due[i].to
                                      /\ sent[i].amount = due[i].amount
          /\ Requested(a) # 0 =>
               user_info'[key].reward_debt
                 = MulDecimal(user_info'[key].amount,
                              pool_info'[a.lp_token].acc_per_share)]_vars

\* The one payout asked for so far was for more than one reward token and the
\* gauge, holding one, sent that one: the user keeps a stake and no pending
\* reward
C22_Witness ==
  /\ last.op = "Reply" /\ last.ok /\ last.intent \in {"Deposit", "Withdraw"}
  /\ totals.payouts = 1
  /\ totals.paid > MaxTreasury
  /\ \E i \in 1..Len(last.msgs) :
       /\ last.msgs[i].contract = AstroToken
       /\ last.msgs[i].call = "Transfer"
       /\ last.msgs[i].account # config.dev_addr
       /\ last.msgs[i].amount = MaxTreasury
       /\ \E lp \in DOMAIN pool_info :
            /\ <<lp, last.msgs[i].account>> \in DOMAIN user_info
            /\ user_info[<<lp, last.msgs[i].account>>].amount > 0
            /\ user_info[<<lp, last.msgs[i].account>>].reward_debt
                 = MulDecimal(user_info[<<lp, last.msgs[i].account>>].amount,
                              pool_info[lp].acc_per_share)

\* The sum of the amounts of the messages msgs
RECURSIVE SumAmounts(_)
SumAmounts(msgs) ==
  IF msgs = <<>> THEN 0 ELSE Head(msgs).amount + SumAmounts(Tail(msgs))

\* C23: the reward-token transfers that the deferred operation about to run
\* emits, dev cut and pending payout together, sum to at most the reward-token
\* balance of the gauge that the operation observes, so that none of them
\* fails for lack of funds when they are executed in order.
C23_TransfersWithinBalance ==
  (Pending /\ last = NoCall) =>
    LET res == reply(Store, Querier)
    IN res.ok =>
         /\ SumAmounts(RewardTransfers(res.msgs)) <= astro_balance
         /\ Dispatch(Ledger, res.st.pool_info, res.msgs, 1).ok

\* The SendRewards requests of msgs to the proxy, in order
SendRewardsTo(msgs, proxy) ==
  SelectSeq(msgs, LAMBDA m : m.contract = proxy /\ m.call = "SendRewards")

\* C24: a completed settlement of a pool with a reward proxy, delta being the
\* proxy's reward balance less the balance snapshotted when the intent was
\* recorded: with deposits at the proxy it asks the proxy to send dev
\* delta / 10 and increases acc_per_share_on_proxy by (delta - delta / 10) /
\* supply; with none it leaves acc_per_share_on_proxy alone and asks for no
\* dev payout; and the call that recorded the intent has snapshotted the
\* balance and asked the proxy to update its rewards whatever the supply.
C24_ProxiedTrackFormula ==
  [][/\ (last'.op = "Reply" /\ last'.ok) =>
          \A lp \in SettledBy(tmp_user_action, pool_info) :
            pool_info[lp].reward_proxy # NoAddr =>
              LET pool == pool_info[lp]
                  proxy == pool.reward_proxy
                  delta == proxy_reward[proxy] - pool.proxy_reward_balance_before_update
                  sent == SendRewardsTo(last'.msgs, proxy)
              IN IF proxy_deposit[proxy] # 0
                   THEN /\ Len(sent) >= 1
                        /\ sent[1].account = config.dev_addr
                        /\ sent[1].amount = delta \div 10
                        /\ tmp_user_action.tag \in {"UpdatePool", "MassUpdatePools"}
                             => Len(sent) = 1
                        /\ pool_info'[lp].acc_per_share_on_proxy
                             = pool.acc_per_share_on_proxy
                               + FromRatio(delta - (delta \div 10), proxy_deposit[proxy])
                 ELSE /\ sent = <<>>
                      /\ pool_info'[lp].acc_per_share_on_proxy = pool.acc_per_share_on_proxy
     /\ (~Pending /\ tmp_user_action' # NoAction /\ last'.ok) =>
          \A lp \in SettledBy(tmp_user_action', pool_info') :
            pool_info'[lp].reward_proxy # NoAddr =>
              /\ pool_info'[lp].proxy_reward_balance_before_update
                   = proxy_reward[pool_info'[lp].reward_proxy]
              /\ Calls(last'.msgs, {pool_info'[lp].reward_proxy}, "UpdateRewards") # {}]_vars

\* A reply has settled a pool whose proxy holds deposits and had earned ten
\* reward units since the snapshot: dev is sent one, the stakers are credited
\* with nine
C24_Witness ==
  /\ last.op = "Reply" /\ last.ok /\ last.intent = "UpdatePool"
  /\ \E lp \in DOMAIN pool_info :
       LET proxy == pool_info[lp].reward_proxy
       IN /\ proxy # NoAddr
          /\ proxy_deposit[proxy] # 0
          /\ \E i \in DevCalls(last.msgs, {proxy}, "SendRewards") :
               /\ last.msgs[i].amount >= 1
               /\ pool_info[lp].acc_per_share_on_proxy
                    = FromRatio(last.msgs[i].amount * 9, proxy_deposit[proxy])

\* The reward tokens that a withdraw of amount 0 by user on lp_token, run on
\* this state, asks for before the cap of the transfer
WithdrawRequests(lp_token, user) ==
  LET u == update_pool_rewards(Querier, lp_token, pool_info[lp_token], config)
      position == user_info[<<lp_token, user>>]
  IN MulDecimal(position.amount, u.pool.acc_per_share) - position.reward_debt

\* C25: for every pool in the gauge's own custody and every user with a
\* position, at every height, also the height of last_reward_block, and for
\* every supply, also zero, the direct amount that pending_token returns is
\* the reward payout that a withdraw of amount 0 by that user on the same
\* state would ask for.
C25_QueryAgreesWithSettlement ==
  \A key \in DOMAIN user_info :
    (/\ key[1] \in DOMAIN pool_info
     /\ pool_info[key[1]].reward_proxy = NoAddr
     /\ withdraw(Store, Querier, key[1], key[2], 0).ok)
      => LET answer == pending_token(Store, Querier, key[1], key[2], NoAnswer)
         IN /\ answer.ok
            /\ answer.pending = WithdrawRequests(key[1], key[2])

====
